---- MODULE Spec2Model ----
(***************************************************************************)
(* Belt-lane kinematics and the two-phase world tick of the simulator      *)
(* (src/simulator/src/main.rs).                                            *)
(*                                                                         *)
(* Encoding of the Rust values:                                            *)
(*   Option<T>            None is <<>>, Some(v) is v (v a non-empty tuple)  *)
(*   Coordinate           <<x, y>>                                          *)
(*   (Item, u32)          <<item, position>>                                *)
(*   [Option<..>; 5]      a tuple of 5 slots                                *)
(*   HashMap<Coordinate, SingleBelt>   a function on the set of its keys    *)
(***************************************************************************)
EXTENDS Integers, Sequences, FiniteSets, TLC

VARIABLES
    belts,      \* World.belts
    prev,       \* belts as they were before the last operation
    log,        \* the deliveries of phase B of the last World::tick
    ret,        \* what the last lane call returned (transfers, or accepted)
    op,         \* the last operation: its name and arguments
    ticks,      \* ticks done so far
    accepts     \* items injected so far by the external producer

vars == <<belts, prev, log, ret, op, ticks, accepts>>

\* ------------------------------------------------------------------ bounds

\* Ticks (world ticks, lane advances) explored from every initial state.
MaxTicks == 3
\* Lanes of a constructed world that hold items at construction.
MaxFilledLanes == 3
\* Items the external producer injects.
MaxAccepts == 2
\* Items on the lane of the single-lane specification at construction.
MaxLaneItems == 3

\* ------------------------------------------------------- program constants

LaneLength == 256
LastPosition == 255
MinGap == 64
Capacity == 5

None == <<>>

\* Positions are u32. A u32 is written here as the integer that has the same
\* 32 bits read as an i32: 0 .. 2147483647 stand for themselves, and a negative
\* n stands for 4294967296 + n, so -1 is u32::MAX = 4294967295.
u32_lt(a, b) == IF (a < 0) = (b < 0) THEN a < b ELSE b < 0
u32_gt(a, b) == u32_lt(b, a)
u32_ge(a, b) == ~u32_lt(a, b)
u32_max(a, b) == IF u32_ge(a, b) THEN a ELSE b
u32_min(a, b) == IF u32_lt(b, a) THEN b ELSE a

\* a + b on u32 for 0 <= b: the sum modulo 2^32, which has the bits of the
\* i32 sum; it passed u32::MAX when a is in the upper half and the sum is not.
wrapping_add(a, b) == a + b
add_overflows(a, b) == a < 0 /\ a + b >= 0

BeltTypes == {"Regular", "Fast", "Express", "Turbo"}

\* positions_per_tick that gives every belt class the Regular speed.
positions_per_tick_regular(belt_type) == 8

positions_per_tick(belt_type) ==
    CASE belt_type = "Regular" -> 8
      [] belt_type = "Fast" -> 16
      [] belt_type = "Express" -> 24
      [] belt_type = "Turbo" -> 32

\* ------------------------------------------------------------ SingleBeltLane

SingleBeltLane_new(belt_type, next_lane_coord) ==
    [items |-> <<None, None, None, None, None>>,
     belt_type |-> belt_type,
     next_lane_coord |-> next_lane_coord]

\* The element of a one-element set; Only({e(v) : v \in {x}}) is e with v
\* standing for the finished value of x, as a Rust let binding does.
Only(S) == CHOOSE x \in S : TRUE

\* items.iter().enumerate().filter_map(..).collect(): <<idx, item, pos>> of the
\* occupied slots, in slot order.
RECURSIVE CollectFrom(_, _)
CollectFrom(items, idx) ==
    IF idx > Len(items) THEN <<>>
    ELSE IF items[idx] = None THEN CollectFrom(items, idx + 1)
    ELSE <<<<idx, items[idx][1], items[idx][2]>>>> \o CollectFrom(items, idx + 1)

items_with_idx(items) == CollectFrom(items, 1)

\* One step of the stable sort: e goes behind every entry whose position is
\* greater than or equal to its own.
RECURSIVE InsertByReversePos(_, _)
InsertByReversePos(sorted, e) ==
    IF sorted = <<>> THEN <<e>>
    ELSE IF u32_ge(Head(sorted)[3], e[3])
         THEN <<Head(sorted)>> \o InsertByReversePos(Tail(sorted), e)
         ELSE <<e>> \o sorted

\* sort_by_key(|&(_, _, pos)| Reverse(pos)): stable, largest position first.
RECURSIVE SortFrom(_, _, _)
SortFrom(list, k, sorted) ==
    IF k > Len(list) THEN sorted
    ELSE Only({SortFrom(list, k + 1, next) :
                  next \in {InsertByReversePos(sorted, list[k])}})

sort_by_reverse_pos(list) == SortFrom(list, 1, <<>>)

\* ScanAhead without the floor at the current position.
RECURSIVE ScanAhead_no_floor(_, _, _, _)
ScanAhead_no_floor(new_positions, k, current_pos, desired_position) ==
    IF k > Len(new_positions) THEN desired_position
    ELSE LET ahead_pos == new_positions[k][3]
         IN IF u32_gt(ahead_pos, current_pos)
                  /\ u32_gt(wrapping_add(desired_position, 64), ahead_pos)
            THEN IF u32_gt(ahead_pos, 64) THEN ahead_pos - 64 ELSE 0
            ELSE ScanAhead_no_floor(new_positions, k + 1, current_pos, desired_position)

\* ScanAhead that also holds back an item that would sit exactly 64 behind
\* the resolved entry.
RECURSIVE ScanAhead_more_than_64(_, _, _, _)
ScanAhead_more_than_64(new_positions, k, current_pos, desired_position) ==
    IF k > Len(new_positions) THEN desired_position
    ELSE LET ahead_pos == new_positions[k][3]
         IN IF u32_gt(ahead_pos, current_pos)
                  /\ u32_ge(wrapping_add(desired_position, 64), ahead_pos)
            THEN LET max_forward == IF u32_gt(ahead_pos, 64) THEN ahead_pos - 64 - 1 ELSE 0
                 IN u32_max(max_forward, current_pos)
            ELSE ScanAhead_more_than_64(new_positions, k + 1, current_pos, desired_position)

\* The inner loop over new_positions: the first resolved entry that is ahead
\* of current_pos and closer than 64 to desired_position decides, then break.
RECURSIVE ScanAhead(_, _, _, _)
ScanAhead(new_positions, k, current_pos, desired_position) ==
    IF k > Len(new_positions) THEN desired_position
    ELSE LET ahead_pos == new_positions[k][3]
         IN IF u32_gt(ahead_pos, current_pos)
                  /\ u32_gt(wrapping_add(desired_position, MinGap), ahead_pos)
            THEN LET max_forward ==
                        IF u32_gt(ahead_pos, MinGap) THEN ahead_pos - MinGap ELSE 0
                 IN u32_max(max_forward, current_pos)
            ELSE ScanAhead(new_positions, k + 1, current_pos, desired_position)

can_move_to(new_positions, current_pos, speed) ==
    ScanAhead(new_positions, 1, current_pos, wrapping_add(current_pos, speed))

\* spacing_pos that stores 255 for a candidate beyond the lane also when the
\* lane has a successor.
spacing_pos_always_clamped(can_move, has_next) ==
    IF u32_gt(can_move, 255) THEN 255 ELSE can_move

\* spacing_pos that stores the unclamped candidate on a lane without successor.
spacing_pos_unclamped(can_move, has_next) == can_move

spacing_pos(can_move, has_next) ==
    IF u32_gt(can_move, LastPosition) /\ ~has_next THEN LastPosition ELSE can_move

\* ResolveFrom that keeps a leader's position before the advance for the
\* spacing checks of the items behind it.
RECURSIVE ResolveFrom_stale_leader(_, _, _, _, _)
ResolveFrom_stale_leader(sorted, i, speed, has_next, new_positions) ==
    IF i > Len(sorted) THEN new_positions
    ELSE Only({ResolveFrom_stale_leader(sorted, i + 1, speed, has_next,
                   Append(new_positions, <<sorted[i][1], cm, sorted[i][3]>>)) :
                  cm \in {can_move_to(new_positions, sorted[i][3], speed)}})

\* The front-to-back loop: new_positions as <<idx, actual_pos, spacing_pos>>.
RECURSIVE ResolveFrom(_, _, _, _, _)
ResolveFrom(sorted, i, speed, has_next, new_positions) ==
    IF i > Len(sorted) THEN new_positions
    ELSE Only({ResolveFrom(sorted, i + 1, speed, has_next,
                   Append(new_positions, <<sorted[i][1], cm, spacing_pos(cm, has_next)>>)) :
                  cm \in {can_move_to(new_positions, sorted[i][3], speed)}})

\* ApplyOne that emits the transfer and leaves the item in its slot.
ApplyOne_keep_slot(st, np, has_next) ==
    LET idx == np[1]
        new_pos == np[2]
        slot == st.items[idx]
    IN IF slot = <<>> THEN st
       ELSE IF u32_gt(new_pos, 255)
            THEN IF has_next
                 THEN [st EXCEPT !.transfers = Append(st.transfers, <<slot[1], new_pos - 256>>)]
                 ELSE [st EXCEPT !.items[idx] = <<slot[1], 255>>]
            ELSE [st EXCEPT !.items[idx] = <<slot[1], new_pos>>]

\* ApplyOne that vacates the slot of a departing item without returning it.
ApplyOne_no_push(st, np, has_next) ==
    LET idx == np[1]
        new_pos == np[2]
        slot == st.items[idx]
    IN IF slot = <<>> THEN st
       ELSE IF u32_gt(new_pos, 255)
            THEN IF has_next
                 THEN [st EXCEPT !.items[idx] = <<>>]
                 ELSE [st EXCEPT !.items[idx] = <<slot[1], 255>>]
            ELSE [st EXCEPT !.items[idx] = <<slot[1], new_pos>>]

\* ApplyOne that writes the candidate position unclamped on a lane without successor.
ApplyOne_no_clamp(st, np, has_next) ==
    LET idx == np[1]
        new_pos == np[2]
        slot == st.items[idx]
    IN IF slot = <<>> THEN st
       ELSE IF u32_gt(new_pos, 255) /\ has_next
            THEN [items |-> [st.items EXCEPT ![idx] = <<>>],
                  transfers |-> Append(st.transfers, <<slot[1], new_pos - 256>>)]
            ELSE [st EXCEPT !.items[idx] = <<slot[1], new_pos>>]

\* ApplyOne that measures the carry position from 255 instead of 256.
ApplyOne_carry_from_255(st, np, has_next) ==
    LET idx == np[1]
        new_pos == np[2]
        slot == st.items[idx]
    IN IF slot = <<>> THEN st
       ELSE IF u32_gt(new_pos, 255)
            THEN IF has_next
                 THEN [items |-> [st.items EXCEPT ![idx] = <<>>],
                       transfers |-> Append(st.transfers, <<slot[1], new_pos - 255>>)]
                 ELSE [st EXCEPT !.items[idx] = <<slot[1], 255>>]
            ELSE [st EXCEPT !.items[idx] = <<slot[1], new_pos>>]

\* ApplyOne that leaves the slot as it is when the candidate exceeds 255 on a
\* lane without successor.
ApplyOne_no_write(st, np, has_next) ==
    LET idx == np[1]
        new_pos == np[2]
        slot == st.items[idx]
    IN IF slot = <<>> THEN st
       ELSE IF u32_gt(new_pos, 255)
            THEN IF has_next
                 THEN [items |-> [st.items EXCEPT ![idx] = <<>>],
                       transfers |-> Append(st.transfers, <<slot[1], new_pos - 256>>)]
                 ELSE st
            ELSE [st EXCEPT !.items[idx] = <<slot[1], new_pos>>]

\* ApplyOne that never hands an item over: a candidate above 255 is clamped
\* to 255 whether or not the lane has a successor.
ApplyOne_never_hands_over(st, np, has_next) ==
    LET idx == np[1]
        new_pos == np[2]
        slot == st.items[idx]
    IN IF slot = <<>> THEN st
       ELSE IF u32_gt(new_pos, 255)
            THEN [st EXCEPT !.items[idx] = <<slot[1], 255>>]
            ELSE [st EXCEPT !.items[idx] = <<slot[1], new_pos>>]

\* One entry of the apply loop on st = [items, transfers].
ApplyOne(st, np, has_next) ==
    LET idx == np[1]
        new_pos == np[2]
        slot == st.items[idx]
    IN IF slot = None THEN st
       ELSE IF u32_gt(new_pos, LastPosition)
            THEN IF has_next
                 THEN [items |-> [st.items EXCEPT ![idx] = None],
                       transfers |-> Append(st.transfers, <<slot[1], new_pos - LaneLength>>)]
                 ELSE [st EXCEPT !.items[idx] = <<slot[1], LastPosition>>]
            ELSE [st EXCEPT !.items[idx] = <<slot[1], new_pos>>]

RECURSIVE ApplyFrom(_, _, _, _)
ApplyFrom(st, new_positions, k, has_next) ==
    IF k > Len(new_positions) THEN st
    ELSE ApplyFrom(ApplyOne(st, new_positions[k], has_next), new_positions, k + 1, has_next)

\* tick_and_get_transfers: [lane |-> the lane afterwards, transfers |-> the Vec returned].
\* The three loops run one after the other, each on the finished value of the
\* one before it: the sorted Vec, then new_positions, then the lane and transfers.
tick_and_get_transfers(lane) ==
    LET speed == positions_per_tick(lane.belt_type)
        has_next == lane.next_lane_coord # None
        Resolved(sorted) == ResolveFrom(sorted, 1, speed, has_next, <<>>)
        Applied(new_positions) ==
            ApplyFrom([items |-> lane.items, transfers |-> <<>>], new_positions, 1, has_next)
        Returned(st) == [lane |-> [lane EXCEPT !.items = st.items], transfers |-> st.transfers]
    IN Only(
          {Returned(st) : st \in
              {Applied(new_positions) : new_positions \in
                  {Resolved(sorted) : sorted \in
                      {sort_by_reverse_pos(items_with_idx(lane.items))}}}})

\* An addition of the inner loop passes u32::MAX: desired_position + 64 is
\* computed for every resolved entry ahead of current_pos, up to the break.
RECURSIVE ScanOverflows(_, _, _, _)
ScanOverflows(new_positions, k, current_pos, desired_position) ==
    IF k > Len(new_positions) THEN FALSE
    ELSE LET ahead_pos == new_positions[k][3]
         IN IF u32_gt(ahead_pos, current_pos)
            THEN \/ add_overflows(desired_position, MinGap)
                 \/ /\ ~u32_gt(wrapping_add(desired_position, MinGap), ahead_pos)
                    /\ ScanOverflows(new_positions, k + 1, current_pos, desired_position)
            ELSE ScanOverflows(new_positions, k + 1, current_pos, desired_position)

\* An addition of the front-to-back loop passes u32::MAX. Up to the first
\* such addition the loop computes the same values with and without overflow
\* checks, so the wrapped new_positions tell where it is.
Overflows(lane) ==
    LET speed == positions_per_tick(lane.belt_type)
        has_next == lane.next_lane_coord # None
        sorted == sort_by_reverse_pos(items_with_idx(lane.items))
        new_positions == ResolveFrom(sorted, 1, speed, has_next, <<>>)
    IN \E i \in 1..Len(sorted) :
          \/ add_overflows(sorted[i][3], speed)
          \/ ScanOverflows(SubSeq(new_positions, 1, i - 1), 1, sorted[i][3],
                           wrapping_add(sorted[i][3], speed))

\* AdjustFrom that also moves the landing position past an item less than 64
\* ahead of it or at it.
RECURSIVE AdjustFrom_both_sides(_, _, _)
AdjustFrom_both_sides(items, k, adjusted) ==
    IF k > Len(items) THEN adjusted
    ELSE IF items[k] # <<>>
              /\ (IF u32_lt(items[k][2], adjusted) THEN adjusted - items[k][2]
                  ELSE items[k][2] - adjusted) < 64
         THEN AdjustFrom_both_sides(items, k + 1, items[k][2] + 64)
         ELSE AdjustFrom_both_sides(items, k + 1, adjusted)

\* The loop of accept_item over the slots, in slot order.
RECURSIVE AdjustFrom(_, _, _)
AdjustFrom(items, k, adjusted_position) ==
    IF k > Len(items) THEN adjusted_position
    ELSE IF items[k] # None /\ u32_lt(items[k][2], adjusted_position)
              /\ adjusted_position - items[k][2] < MinGap
         THEN AdjustFrom(items, k + 1, items[k][2] + MinGap)
         ELSE AdjustFrom(items, k + 1, adjusted_position)

\* adjusted_position without the clamp of the target position to 255.
adjusted_position_unclamped(items, target_position) ==
    AdjustFrom(items, 1, target_position)

adjusted_position(items, target_position) ==
    AdjustFrom(items, 1, u32_min(target_position, LastPosition))

\* iter_mut().find(|slot| slot.is_none()): index of the first empty slot, 0 when none.
RECURSIVE FindEmptyFrom(_, _)
FindEmptyFrom(items, k) ==
    IF k > Len(items) THEN 0
    ELSE IF items[k] = None THEN k ELSE FindEmptyFrom(items, k + 1)

\* empty_slot that falls back to the first slot when none is empty.
empty_slot_or_first(items) ==
    IF FindEmptyFrom(items, 1) = 0 THEN 1 ELSE FindEmptyFrom(items, 1)

empty_slot(items) == FindEmptyFrom(items, 1)

\* accept_item without the test adjusted_position <= 255.
accept_item_unchecked(lane, item, target_position) ==
    LET adj == adjusted_position(lane.items, target_position)
        e == empty_slot(lane.items)
    IN IF e # 0
       THEN [lane |-> [lane EXCEPT !.items[e] = <<item, adj>>], ok |-> TRUE]
       ELSE [lane |-> lane, ok |-> FALSE]

\* accept_item that reports success whether or not the item was placed.
accept_item_always_true(lane, item, target_position) ==
    LET adj == adjusted_position(lane.items, target_position)
        e == empty_slot(lane.items)
    IN IF adj <= 255 /\ e # 0
       THEN [lane |-> [lane EXCEPT !.items[e] = <<item, adj>>], ok |-> TRUE]
       ELSE [lane |-> lane, ok |-> TRUE]

\* accept_item: [lane |-> the lane afterwards, ok |-> the bool returned].
accept_item(lane, item, target_position) ==
    LET adj == adjusted_position(lane.items, target_position)
        e == empty_slot(lane.items)
    IN IF adj <= LastPosition /\ e # 0
       THEN [lane |-> [lane EXCEPT !.items[e] = <<item, adj>>], ok |-> TRUE]
       ELSE [lane |-> lane, ok |-> FALSE]

\* a - b on u32 goes below zero.
sub_underflows(a, b) == u32_lt(a, b)

\* max_forward computed as ahead_pos - 64 whatever ahead_pos is.
max_forward_unguarded(ahead_pos) == sub_underflows(ahead_pos, 64)

\* The subtraction of max_forward goes below zero: ahead_pos - 64 is computed
\* only if ahead_pos > 64.
max_forward_underflows(ahead_pos) ==
    u32_gt(ahead_pos, MinGap) /\ sub_underflows(ahead_pos, MinGap)

\* A subtraction of the inner loop goes below zero: max_forward is computed
\* at the resolved entry that decides.
RECURSIVE ScanUnderflows(_, _, _, _)
ScanUnderflows(new_positions, k, current_pos, desired_position) ==
    IF k > Len(new_positions) THEN FALSE
    ELSE LET ahead_pos == new_positions[k][3]
         IN IF u32_gt(ahead_pos, current_pos)
                  /\ u32_gt(wrapping_add(desired_position, MinGap), ahead_pos)
            THEN max_forward_underflows(ahead_pos)
            ELSE ScanUnderflows(new_positions, k + 1, current_pos, desired_position)

\* A subtraction of tick_and_get_transfers goes below zero: max_forward in the
\* front-to-back loop, or new_pos - 256 in the apply loop, computed only if
\* new_pos > 255.
Underflows(lane) ==
    LET speed == positions_per_tick(lane.belt_type)
        has_next == lane.next_lane_coord # None
        sorted == sort_by_reverse_pos(items_with_idx(lane.items))
        new_positions == ResolveFrom(sorted, 1, speed, has_next, <<>>)
    IN \/ \E i \in 1..Len(sorted) :
             ScanUnderflows(SubSeq(new_positions, 1, i - 1), 1, sorted[i][3],
                            wrapping_add(sorted[i][3], speed))
       \/ \E i \in 1..Len(new_positions) :
             /\ u32_gt(new_positions[i][2], LastPosition)
             /\ sub_underflows(new_positions[i][2], LaneLength)

\* An addition or subtraction of tick_and_get_transfers leaves u32.
advance_faults(lane) == Overflows(lane) \/ Underflows(lane)

\* An addition or subtraction of the loop of accept_item leaves u32:
\* adjusted_position - pos, computed only if pos < adjusted_position, and
\* pos + 64.
RECURSIVE AdjustFaults(_, _, _)
AdjustFaults(items, k, adjusted) ==
    IF k > Len(items) THEN FALSE
    ELSE IF items[k] # None /\ u32_lt(items[k][2], adjusted)
         THEN \/ sub_underflows(adjusted, items[k][2])
              \/ /\ adjusted - items[k][2] < MinGap
                 /\ add_overflows(items[k][2], MinGap)
              \/ AdjustFaults(items, k + 1,
                     IF adjusted - items[k][2] < MinGap
                     THEN wrapping_add(items[k][2], MinGap) ELSE adjusted)
         ELSE AdjustFaults(items, k + 1, adjusted)

accept_faults(lane, target_position) ==
    AdjustFaults(lane.items, 1, u32_min(target_position, LastPosition))

\* ---------------------------------------------------------------- SingleBelt

SingleBelt_new(coordinate, belt_type, left_next, right_next) ==
    [left_lane |-> SingleBeltLane_new(belt_type, left_next),
     right_lane |-> SingleBeltLane_new(belt_type, right_next),
     coordinate |-> coordinate]

\* --------------------------------------------------------------------- World

World_new == <<>>

\* belts.insert(belt.coordinate, belt)
add_belt(w, belt) ==
    [c \in (DOMAIN w) \cup {belt.coordinate} |->
        IF c = belt.coordinate THEN belt ELSE w[c]]

\* The tagging loops of phase A: (next_coord, item, pos) for a lane's transfers.
RECURSIVE TagFrom(_, _, _)
TagFrom(transfers, k, next_lane_coord) ==
    IF k > Len(transfers) \/ next_lane_coord = None THEN <<>>
    ELSE <<<<next_lane_coord, transfers[k][1], transfers[k][2]>>>>
         \o TagFrom(transfers, k + 1, next_lane_coord)

\* The body of the phase A loop for one belt: left lane, then right lane.
TickBelt(belt) ==
    Only({[belt |-> [belt EXCEPT !.left_lane = l.lane, !.right_lane = r.lane],
           transfers |-> TagFrom(l.transfers, 1, l.lane.next_lane_coord)
                         \o TagFrom(r.transfers, 1, r.lane.next_lane_coord)] :
             l \in {tick_and_get_transfers(belt.left_lane)},
             r \in {tick_and_get_transfers(belt.right_lane)}})

\* Phase A over the belts in the order values_mut() yields them.
RECURSIVE PhaseAFrom(_, _, _, _)
PhaseAFrom(w, order, k, all_transfers) ==
    IF k > Len(order) THEN [belts |-> w, all_transfers |-> all_transfers]
    ELSE Only({Only({PhaseAFrom(w1, order, k + 1, tr1) :
                        w1 \in {[w EXCEPT ![order[k]] = t.belt]},
                        tr1 \in {all_transfers \o t.transfers}}) :
                  t \in {TickBelt(w[order[k]])}})

PhaseA(w, order) == PhaseAFrom(w, order, 1, <<>>)

\* Deliver that offers the item to the right lane first.
Deliver_right_first(target_belt, item, position) ==
    LET r == accept_item(target_belt.right_lane, item, position)
    IN IF ~r.ok
       THEN [target_belt EXCEPT
                !.left_lane = accept_item(target_belt.left_lane, item, position).lane]
       ELSE [target_belt EXCEPT !.right_lane = r.lane]

\* Left lane first, then the right lane if the left lane refused.
Deliver(target_belt, item, position) ==
    Only({IF ~l.ok
          THEN [target_belt EXCEPT
                   !.right_lane = accept_item(target_belt.right_lane, item, position).lane]
          ELSE [target_belt EXCEPT !.left_lane = l.lane] :
             l \in {accept_item(target_belt.left_lane, item, position)}})

\* DeliverOne that adds a Regular belt at a target coordinate that holds none
\* and delivers to it.
DeliverOne_creates_belt(st, tr) ==
    LET target_coord == tr[1]
        w == IF target_coord \in DOMAIN st.belts THEN st.belts
             ELSE add_belt(st.belts, SingleBelt_new(target_coord, "Regular", <<>>, <<>>))
        after == Deliver(w[target_coord], tr[2], tr[3])
    IN [belts |-> [w EXCEPT ![target_coord] = after],
        log |-> Append(st.log, [transfer |-> tr, found |-> TRUE,
                                before |-> w[target_coord], after |-> after])]

\* One iteration of the phase B loop on st = [belts, log]; log keeps, for
\* every transfer record, the target belt before and after its delivery
\* (None for both when the target coordinate holds no belt).
DeliverOne(st, tr) ==
    LET target_coord == tr[1]
    IN IF target_coord \in DOMAIN st.belts
       THEN Only({[belts |-> [st.belts EXCEPT ![target_coord] = after],
                   log |-> Append(st.log, [transfer |-> tr, found |-> TRUE,
                                           before |-> st.belts[target_coord],
                                           after |-> after])] :
                     after \in {Deliver(st.belts[target_coord], tr[2], tr[3])}})
       ELSE [belts |-> st.belts,
             log |-> Append(st.log, [transfer |-> tr, found |-> FALSE,
                                     before |-> None, after |-> None])]

RECURSIVE PhaseBFrom(_, _, _)
PhaseBFrom(st, all_transfers, k) ==
    IF k > Len(all_transfers) THEN st
    ELSE Only({PhaseBFrom(st1, all_transfers, k + 1) :
                  st1 \in {DeliverOne(st, all_transfers[k])}})

\* A tick of one phase: every belt's transfers are delivered as soon as the
\* belt has advanced.
RECURSIVE SinglePhaseFrom(_, _, _)
SinglePhaseFrom(st, order, k) ==
    IF k > Len(order) THEN st
    ELSE LET t == TickBelt(st.belts[order[k]])
             st1 == [belts |-> [st.belts EXCEPT ![order[k]] = t.belt], log |-> st.log]
         IN SinglePhaseFrom(PhaseBFrom(st1, t.transfers, 1), order, k + 1)

tick_single_phase(w, order) == SinglePhaseFrom([belts |-> w, log |-> <<>>], order, 1)

\* World::tick with the belts visited in `order`: [belts, log].
tick(w, order) ==
    Only({PhaseBFrom([belts |-> a.belts, log |-> <<>>], a.all_transfers, 1) :
             a \in {PhaseA(w, order)}})

\* The orders in which a HashMap over the keys of w may be iterated.
\* An addition or subtraction of World::tick leaves u32: in the advance of a
\* lane, or in an accept_item call of the delivery loop, the one on the right
\* lane made only if the left lane refused.
tick_faults(w, order) ==
    \/ \E c \in DOMAIN w : advance_faults(w[c].left_lane) \/ advance_faults(w[c].right_lane)
    \/ LET t == tick(w, order)
       IN \E i \in DOMAIN t.log :
             LET e == t.log[i]
             IN /\ e.found
                /\ \/ accept_faults(e.before.left_lane, e.transfer[3])
                   \/ /\ ~accept_item(e.before.left_lane, e.transfer[2], e.transfer[3]).ok
                      /\ accept_faults(e.before.right_lane, e.transfer[3])

Orders(w) ==
    {o \in [1..Cardinality(DOMAIN w) -> DOMAIN w] :
        \A i, j \in DOMAIN o : i # j => o[i] # o[j]}

\* ----------------------------------------------------------- constructed worlds

c00 == <<0, 0>>
c10 == <<1, 0>>
c20 == <<2, 0>>
c01 == <<0, 1>>
\* A coordinate at which no belt is ever placed.
c99 == <<9, 9>>

\* Slot contents the tests assign directly (lane.items[i] = Some((item, pos))),
\* as positions in slot order; handles are given when the lane is filled.
LaneFills ==
    { <<>>,                          \* an empty lane
      <<250, 180, 100, 10>>,         \* tests.rs:458-460 and tests.rs:1100
      <<0, 50, 100, 150, 200>> }     \* tests.rs:225-231

\* lane.items[i] = Some((item(first + i), fill[i])) for every position of fill.
fill_lane(lane, fill, first) ==
    [lane EXCEPT !.items = [k \in 1..Capacity |->
        IF k <= Len(fill) THEN <<first + k, fill[k]>> ELSE None]]

\* A belt whose lanes are filled before it is added to the world; n numbers
\* the belt so that every slot of the world gets its own handle.
filled_belt(coordinate, belt_type, left_next, right_next, lf, rf, n) ==
    LET b == SingleBelt_new(coordinate, belt_type, left_next, right_next)
    IN [b EXCEPT !.left_lane = fill_lane(b.left_lane, lf, 10 * n),
                 !.right_lane = fill_lane(b.right_lane, rf, 10 * n + 5)]

\* The shapes of world the tests and main() build: for each belt its
\* coordinate, left successor and right successor.
Layouts ==
    { \* main.rs:304-317: a chain of three belts
      << <<c20, None, None>>, <<c10, c20, c20>>, <<c00, c10, c10>> >>,
      \* tests.rs:1059-1081 and 789-797: two belts feed one, and the lanes of
      \* one belt have different successors
      << <<c10, None, None>>, <<c01, c10, c10>>, <<c00, c10, c01>> >>,
      \* a chain whose last successor coordinate holds no belt
      << <<c10, c99, c99>>, <<c00, c10, c10>> >>,
      \* a ring of two belts
      << <<c10, c00, c00>>, <<c00, c10, c10>> >>,
      \* a belt whose lanes name its own coordinate as successor
      << <<c00, c00, c00>> >> }

\* The belt classes a layout's belts are built with, first belt first
\* (tests.rs:1491-1494: Turbo feeding Regular).
TypeMixes ==
    { <<"Regular", "Regular", "Regular">>,
      <<"Regular", "Turbo", "Turbo">> }

RECURSIVE BuildFrom(_, _, _, _, _)
BuildFrom(w, layout, types, fills, k) ==
    IF k > Len(layout) THEN w
    ELSE BuildFrom(add_belt(w, filled_belt(layout[k][1], types[k], layout[k][2],
                                           layout[k][3], fills[k][1], fills[k][2], k)),
                   layout, types, fills, k + 1)

build_world(layout, types, fills) == BuildFrom(World_new, layout, types, fills, 1)

FilledLanes(fills) ==
    Cardinality({ks \in (DOMAIN fills) \X {1, 2} : fills[ks[1]][ks[2]] # <<>>})

NoFills(layout) == [k \in 1..Len(layout) |-> << <<>>, <<>> >>]

\* get_lane_mut(coord, is_left)
get_lane(w, coord, is_left) ==
    IF is_left THEN w[coord].left_lane ELSE w[coord].right_lane

set_lane(w, coord, is_left, lane) ==
    IF is_left THEN [w EXCEPT ![coord].left_lane = lane]
    ELSE [w EXCEPT ![coord].right_lane = lane]

\* ------------------------------------------------------------------- actions

\* A world built as the tests build theirs, then handed to the tick driver.
Init ==
    /\ \E layout \in Layouts, types \in TypeMixes :
         \E fills \in [1..Len(layout) -> LaneFills \X LaneFills] :
            /\ FilledLanes(fills) <= MaxFilledLanes
            /\ belts = build_world(layout, types, fills)
    /\ prev = belts
    /\ log = <<>>
    /\ ret = <<>>
    /\ op = <<"new">>
    /\ ticks = 0
    /\ accepts = 0

\* world.tick(), the HashMap yielding its belts in some order.
Tick ==
    /\ ticks < MaxTicks
    /\ \E order \in Orders(belts) :
          LET t == tick(belts, order)
          IN /\ belts' = t.belts
             /\ log' = t.log
    /\ prev' = belts
    /\ ret' = <<>>
    /\ op' = <<"tick">>
    /\ ticks' = ticks + 1
    /\ UNCHANGED accepts

Next == Tick

Spec == Init /\ [][Next]_vars

\* ---------------------------------------- a world fed by an external producer

\* Target positions the producer asks for; 300 is tests.rs:251.
TargetPositions == {0, 200, 300}

\* An empty world of one of the layouts.
InitInject ==
    /\ \E layout \in Layouts, types \in TypeMixes :
            belts = build_world(layout, types, NoFills(layout))
    /\ prev = belts
    /\ log = <<>>
    /\ ret = <<>>
    /\ op = <<"new">>
    /\ ticks = 0
    /\ accepts = 0

\* The producer injects at the head of the network:
\* world.get_lane_mut(c00, is_left).accept_item(item, target_position).
AcceptItem ==
    /\ accepts < MaxAccepts
    /\ \E is_left \in BOOLEAN, target_position \in TargetPositions :
          LET item == accepts + 1
              r == accept_item(get_lane(belts, c00, is_left), item, target_position)
          IN /\ belts' = set_lane(belts, c00, is_left, r.lane)
             /\ ret' = r.ok
             /\ op' = <<"accept_item", c00, is_left, item, target_position>>
    /\ prev' = belts
    /\ log' = <<>>
    /\ accepts' = accepts + 1
    /\ UNCHANGED ticks

NextInject == Tick \/ AcceptItem

SpecInject == InitInject /\ [][NextInject]_vars

\* --------------------------------------------- the chain of three belts, run long

\* The number of world ticks the chain tests run (tests.rs:463).
ChainTicks == 90

\* The most ticks a run of the chain takes.
MaxChainTicks == 90

\* tests.rs:452-461: belts 3, 2, 1 of one class at (2,0), (1,0), (0,0); the
\* left lane of belt 1 holds three items at 250, 180, 100 in its first slots.
ChainLayout == << <<c20, None, None>>, <<c10, c20, c20>>, <<c00, c10, c10>> >>
ChainFills == << << <<>>, <<>> >>, << <<>>, <<>> >>, << <<250, 180, 100>>, <<>> >> >>

InitChain ==
    /\ \E belt_type \in BeltTypes :
            belts = build_world(ChainLayout, <<belt_type, belt_type, belt_type>>, ChainFills)
    /\ prev = belts
    /\ log = <<>>
    /\ ret = <<>>
    /\ op = <<"new">>
    /\ ticks = 0
    /\ accepts = 0

\* One iteration of for _ in 0..90 { world.tick(); }.
ChainTick ==
    /\ ticks < MaxChainTicks
    /\ \E order \in Orders(belts) :
          LET t == tick(belts, order)
          IN /\ belts' = t.belts
             /\ log' = t.log
    /\ prev' = belts
    /\ ret' = <<>>
    /\ op' = <<"tick">>
    /\ ticks' = ticks + 1
    /\ UNCHANGED accepts

NextChain == ChainTick

SpecChain == InitChain /\ [][NextChain]_vars

\* --------------------------------------------- the chain of three belts, run forever

\* The most items a world of the flow starts with.
MaxWorldItems == 5

\* The fills of the lanes of the flow: one item about to leave its tile
\* (tests.rs:386) and the fills of LaneFills.
FlowFills == LaneFills \cup { <<250>> }

\* The number of items the fills put in a world.
FillItems(fills) ==
    LET RECURSIVE Sum(_)
        Sum(k) == IF k = 0 THEN 0
                  ELSE Len(fills[k][1]) + Len(fills[k][2]) + Sum(k - 1)
    IN Sum(Len(fills))

\* The chain 1 -> 2 -> 3 of tests.rs:377-387 with at most MaxWorldItems items.
InitFlow ==
    /\ \E types \in TypeMixes :
         \E fills \in [1..Len(ChainLayout) -> FlowFills \X FlowFills] :
            /\ FillItems(fills) <= MaxWorldItems
            /\ FilledLanes(fills) <= MaxFilledLanes
            /\ belts = build_world(ChainLayout, types, fills)
    /\ prev = belts
    /\ log = <<>>
    /\ ret = <<>>
    /\ op = <<"new">>
    /\ ticks = 0
    /\ accepts = 0

\* world.tick() in a loop that does not end (main.rs:338-342); of the loop
\* counter only the parity is kept.
FlowTick ==
    /\ \E order \in Orders(belts) :
          LET t == tick(belts, order)
          IN /\ belts' = t.belts
             /\ log' = t.log
    /\ prev' = belts
    /\ ret' = <<>>
    /\ op' = <<"tick">>
    /\ ticks' = 1 - ticks
    /\ UNCHANGED accepts

NextFlow == FlowTick

\* The loop always takes its next iteration.
SpecFlow == InitFlow /\ [][NextFlow]_vars /\ WF_vars(FlowTick)

\* ------------------------------------------------------------- a single lane

\* Positions the items of the lane start at: the lane's two ends, pairs
\* closer than 64, pairs exactly 64 apart and three items within 64.
LanePositions == {0, 40, 60, 100, 164, 191, 250, 255}

\* A lane holding the positions ps in its first slots, item k in slot k.
lane_with(belt_type, next_lane_coord, ps) ==
    fill_lane(SingleBeltLane_new(belt_type, next_lane_coord), ps, 0)

\* One belt at c00 whose left lane is the lane under study.
InitLane ==
    /\ \E belt_type \in BeltTypes, next \in {None, c10}, n \in 0..MaxLaneItems :
         \E ps \in [1..n -> LanePositions] :
            belts = add_belt(World_new,
                        [SingleBelt_new(c00, belt_type, next, next)
                            EXCEPT !.left_lane = lane_with(belt_type, next, ps)])
    /\ prev = belts
    /\ log = <<>>
    /\ ret = <<>>
    /\ op = <<"new">>
    /\ ticks = 0
    /\ accepts = 0

\* lane.tick_and_get_transfers() on the left lane of c00.
Advance ==
    /\ ticks < MaxTicks
    /\ LET r == tick_and_get_transfers(belts[c00].left_lane)
       IN /\ belts' = set_lane(belts, c00, TRUE, r.lane)
          /\ ret' = r.transfers
    /\ prev' = belts
    /\ log' = <<>>
    /\ op' = <<"tick_and_get_transfers">>
    /\ ticks' = ticks + 1
    /\ UNCHANGED accepts

NextLane == Advance

SpecLane == InitLane /\ [][NextLane]_vars

\* ------------------------------------------------ a lane holding a single item

\* One belt at c00 whose left lane holds item 1, at any position of the lane
\* (tests.rs:78-79 with 10, tests.rs:130-131 with 250).
InitSingle ==
    /\ \E belt_type \in BeltTypes, next \in {None, c10}, p \in 0..LastPosition :
            belts = add_belt(World_new,
                        [SingleBelt_new(c00, belt_type, next, next)
                            EXCEPT !.left_lane = lane_with(belt_type, next, <<p>>)])
    /\ prev = belts
    /\ log = <<>>
    /\ ret = <<>>
    /\ op = <<"new">>
    /\ ticks = 0
    /\ accepts = 0

SpecSingle == InitSingle /\ [][NextLane]_vars

\* ------------------------------------- a lane holding out-of-band positions

\* Positions of the lane's items: in band (100, 255), just beyond the lane
\* (256 of tests.rs:1162, 300) and at the top of u32 (4294967295, 4294967263,
\* 4294967196).
WidePositions == {100, 255, 256, 300, -1, -33, -100}

\* The build checks u32 additions (debug) or lets them wrap (release).
Builds == {"debug", "release"}

\* One belt at c00 whose left lane holds one or two items at WidePositions.
InitWide ==
    /\ \E belt_type \in BeltTypes, next \in {None, c10}, n \in 1..2 :
         \E ps \in [1..n -> WidePositions] :
            belts = add_belt(World_new,
                        [SingleBelt_new(c00, belt_type, next, next)
                            EXCEPT !.left_lane = lane_with(belt_type, next, ps)])
    /\ prev = belts
    /\ log = <<>>
    /\ ret = <<>>
    /\ op = <<"new">>
    /\ ticks = 0
    /\ accepts = 0

\* lane.tick_and_get_transfers() on the left lane of c00, in either build: an
\* addition that passes u32::MAX panics in a debug build, before the apply
\* loop has written anything, and wraps in a release build.
AdvanceWide ==
    /\ ticks < MaxTicks
    /\ op[1] # "panic"
    /\ \E build \in Builds :
          IF build = "debug" /\ Overflows(belts[c00].left_lane)
          THEN /\ op' = <<"panic">>
               /\ UNCHANGED <<belts, ret>>
          ELSE LET r == tick_and_get_transfers(belts[c00].left_lane)
               IN /\ belts' = set_lane(belts, c00, TRUE, r.lane)
                  /\ ret' = r.transfers
                  /\ op' = <<"tick_and_get_transfers">>
    /\ prev' = belts
    /\ log' = <<>>
    /\ ticks' = ticks + 1
    /\ UNCHANGED accepts

NextWide == AdvanceWide

SpecWide == InitWide /\ [][NextWide]_vars

\* ------------------------------ lane and world operations with checked arithmetic

\* Operations explored from every initial state.
MaxOps == 2
\* Items placed freely on the lane under study at construction.
MaxCheckedItems == 2

\* Positions of the items of the lane: its two ends, a pair closer than 64,
\* a leader that lands below 64.
CheckedPositions == {0, 40, 100, 250, 255}

\* Target positions offered: in band, beyond the lane, u32::MAX.
CheckedTargets == {0, 70, 300, -1}

\* The lane under study holds up to MaxCheckedItems items at any of the
\* CheckedPositions, or one of the fills of the constructed worlds.
CheckedFills ==
    LaneFills \cup UNION {[1..n -> CheckedPositions] : n \in 0..MaxCheckedItems}

\* The belt at c00, whose left lane is the lane under study, feeds an empty
\* Regular belt at c10 or has no successor.
InitChecked ==
    /\ \E belt_type \in BeltTypes, next \in {None, c10} :
         \E ps \in CheckedFills :
            belts = add_belt(
                        add_belt(World_new, SingleBelt_new(c10, "Regular", None, None)),
                        [SingleBelt_new(c00, belt_type, next, next)
                            EXCEPT !.left_lane = lane_with(belt_type, next, ps)])
    /\ prev = belts
    /\ log = <<>>
    /\ ret = <<>>
    /\ op = <<"new">>
    /\ ticks = 0
    /\ accepts = 0

\* lane.tick_and_get_transfers() on the left lane of c00, in either build.
AdvanceChecked ==
    /\ ticks + accepts < MaxOps
    /\ op[1] # "panic"
    /\ \E build \in Builds :
          IF build = "debug" /\ advance_faults(belts[c00].left_lane)
          THEN /\ op' = <<"panic">>
               /\ UNCHANGED <<belts, ret>>
          ELSE LET r == tick_and_get_transfers(belts[c00].left_lane)
               IN /\ belts' = set_lane(belts, c00, TRUE, r.lane)
                  /\ ret' = r.transfers
                  /\ op' = <<"tick_and_get_transfers">>
    /\ prev' = belts
    /\ log' = <<>>
    /\ ticks' = ticks + 1
    /\ UNCHANGED accepts

\* lane.accept_item(item, target_position) on the left lane of c00, in either build.
AcceptChecked ==
    /\ ticks + accepts < MaxOps
    /\ op[1] # "panic"
    /\ \E build \in Builds, target_position \in CheckedTargets :
          IF build = "debug" /\ accept_faults(belts[c00].left_lane, target_position)
          THEN /\ op' = <<"panic">>
               /\ UNCHANGED <<belts, ret>>
          ELSE LET item == Capacity + 1 + accepts
                   r == accept_item(belts[c00].left_lane, item, target_position)
               IN /\ belts' = set_lane(belts, c00, TRUE, r.lane)
                  /\ ret' = r.ok
                  /\ op' = <<"accept_item", c00, TRUE, item, target_position>>
    /\ prev' = belts
    /\ log' = <<>>
    /\ accepts' = accepts + 1
    /\ UNCHANGED ticks

\* world.tick(), in either build.
TickChecked ==
    /\ ticks + accepts < MaxOps
    /\ op[1] # "panic"
    /\ \E build \in Builds, order \in Orders(belts) :
          IF build = "debug" /\ tick_faults(belts, order)
          THEN /\ op' = <<"panic">>
               /\ UNCHANGED <<belts, log>>
          ELSE LET t == tick(belts, order)
               IN /\ belts' = t.belts
                  /\ log' = t.log
                  /\ op' = <<"tick">>
    /\ prev' = belts
    /\ ret' = <<>>
    /\ ticks' = ticks + 1
    /\ UNCHANGED accepts

NextChecked == AdvanceChecked \/ AcceptChecked \/ TickChecked

SpecChecked == InitChecked /\ [][NextChecked]_vars

\* --------------------------------------------------- a lane offered an item

\* The greatest target position offered to an empty lane (tests.rs:251).
MaxTargetPosition == 300

\* Positions the slots of the lane hold at the start: pairs closer than 64,
\* pairs further apart and the lane's last position.
SlotPositions == {60, 100, 200, 255}

\* Target positions offered to a lane that holds items: behind, between and
\* ahead of the items, the 120 of tests.rs:214, the 240 of tests.rs:234 and
\* the 300 of tests.rs:251.
LaneTargets == {0, 70, 120, 240, 300}

\* An empty lane is offered every position up to MaxTargetPosition.
targets_for(lane) ==
    IF \A k \in 1..Capacity : lane.items[k] = None
    THEN 0..MaxTargetPosition ELSE LaneTargets

\* lane.items[k] = Some((item(k), p)) for the slots to which the arrangement
\* gives <<p>> (tests.rs:212, tests.rs:225-231); the others stay None.
arranged_lane(lane, arrangement) ==
    [lane EXCEPT !.items = [k \in 1..Capacity |->
        IF arrangement[k] = None THEN None ELSE <<k, arrangement[k][1]>>]]

\* One Regular belt at c00 without successor whose left lane holds any
\* arrangement of items over SlotPositions in its five slots.
InitAccept ==
    /\ \E arrangement \in [1..Capacity -> {<<p>> : p \in SlotPositions} \cup {None}] :
            belts = add_belt(World_new,
                        [SingleBelt_new(c00, "Regular", None, None)
                            EXCEPT !.left_lane =
                                arranged_lane(SingleBeltLane_new("Regular", None), arrangement)])
    /\ prev = belts
    /\ log = <<>>
    /\ ret = <<>>
    /\ op = <<"new">>
    /\ ticks = 0
    /\ accepts = 0

\* lane.accept_item(item, target_position) on the left lane of c00.
AcceptOnLane ==
    /\ accepts < MaxAccepts
    /\ \E target_position \in targets_for(belts[c00].left_lane) :
          LET item == Capacity + 1 + accepts
              r == accept_item(belts[c00].left_lane, item, target_position)
          IN /\ belts' = set_lane(belts, c00, TRUE, r.lane)
             /\ ret' = r.ok
             /\ op' = <<"accept_item", c00, TRUE, item, target_position>>
    /\ prev' = belts
    /\ log' = <<>>
    /\ accepts' = accepts + 1
    /\ UNCHANGED ticks

NextAccept == AcceptOnLane

SpecAccept == InitAccept /\ [][NextAccept]_vars

\* ------------------------------------- a lane without successor, ticked forever

\* The most items a lane of the run starts with.
MaxRunItems == 4

\* Start positions of the run: the lane's ends, the rest positions of a
\* compacted lane less one, and the positions of the spacing tests.
RunPositions == {0, 10, 64, 100, 128, 170, 192, 250, 255}

\* The items of a fill are pairwise at least 64 apart.
ValidFill(ps) ==
    \A i, j \in DOMAIN ps :
        i # j => (ps[i] - ps[j] >= MinGap \/ ps[j] - ps[i] >= MinGap)

\* The fills a run starts from: every fill over RunPositions that respects the
\* gap, in any slot order, and the four items of tests.rs:587-592.
RunFills ==
    {ps \in UNION {[1..n -> RunPositions] : n \in 0..MaxRunItems} : ValidFill(ps)}
        \cup { <<0, 40, 80, 120>> }

\* One belt at c00 without successor whose left lane holds a fill.
InitRun ==
    /\ \E belt_type \in BeltTypes, ps \in RunFills :
            belts = add_belt(World_new,
                        [SingleBelt_new(c00, belt_type, None, None)
                            EXCEPT !.left_lane = lane_with(belt_type, None, ps)])
    /\ prev = belts
    /\ log = <<>>
    /\ ret = <<>>
    /\ op = <<"new">>
    /\ ticks = 0
    /\ accepts = 0

\* lane.tick_and_get_transfers() in a loop that does not end (tests.rs:595,
\* main.rs:338-342); of the loop counter only the parity is kept, so that an
\* iteration that leaves the lane as it is is still a step.
Run ==
    /\ LET r == tick_and_get_transfers(belts[c00].left_lane)
       IN /\ belts' = set_lane(belts, c00, TRUE, r.lane)
          /\ ret' = r.transfers
    /\ prev' = belts
    /\ log' = <<>>
    /\ op' = <<"tick_and_get_transfers">>
    /\ ticks' = 1 - ticks
    /\ UNCHANGED accepts

NextRun == Run

\* The loop always takes its next iteration.
SpecRun == InitRun /\ [][NextRun]_vars /\ WF_vars(Run)

\* ------------------------------------- a lane with a successor, run until empty

\* Advances explored: one more than a Regular lane needs to pass an item from
\* position 0 to its successor.
MaxDrainTicks == 33

\* The fills of RunFills whose items are pairwise at least 64 apart.
DrainFills == {ps \in RunFills : ValidFill(ps)}

\* One belt at c00 whose left lane holds a fill and has the successor c10.
InitDrain ==
    /\ \E belt_type \in BeltTypes, ps \in DrainFills :
            belts = add_belt(World_new,
                        [SingleBelt_new(c00, belt_type, c10, c10)
                            EXCEPT !.left_lane = lane_with(belt_type, c10, ps)])
    /\ prev = belts
    /\ log = <<>>
    /\ ret = <<>>
    /\ op = <<"new">>
    /\ ticks = 0
    /\ accepts = 0

\* lane.tick_and_get_transfers() on the left lane of c00, counted.
Drain ==
    /\ ticks < MaxDrainTicks
    /\ LET r == tick_and_get_transfers(belts[c00].left_lane)
       IN /\ belts' = set_lane(belts, c00, TRUE, r.lane)
          /\ ret' = r.transfers
    /\ prev' = belts
    /\ log' = <<>>
    /\ op' = <<"tick_and_get_transfers">>
    /\ ticks' = ticks + 1
    /\ UNCHANGED accepts

NextDrain == Drain

SpecDrain == InitDrain /\ [][NextDrain]_vars

\* --------------------------------------------- one belt feeding a belt of any speed

\* Ticks of the hand-off: tests.rs:1502 runs 3, the item that starts at 159
\* on a Turbo lane arrives in the fourth.
MaxHandoffTicks == 4

\* The two items of the feeding lane, front item first: 230 and 160 of
\* tests.rs:1496-1497, and positions next to them.
HandoffFills == { <<230, 160>>, <<230, 159>>, <<224, 160>>, <<224, 159>> }

\* The belt at c00 feeds the belt at c10, which has no successor
\* (tests.rs:1486-1498); item 1 is the front item of the left lane of c00 and
\* item 2 the one behind it.
InitHandoff ==
    /\ \E feeder \in BeltTypes, fed \in BeltTypes, ps \in HandoffFills :
            belts = add_belt(add_belt(World_new, SingleBelt_new(c10, fed, None, None)),
                             filled_belt(c00, feeder, c10, c10, ps, <<>>, 0))
    /\ prev = belts
    /\ log = <<>>
    /\ ret = <<>>
    /\ op = <<"new">>
    /\ ticks = 0
    /\ accepts = 0

\* One iteration of for tick in 1..=3 { world.tick(); }.
HandoffTick ==
    /\ ticks < MaxHandoffTicks
    /\ \E order \in Orders(belts) :
          LET t == tick(belts, order)
          IN /\ belts' = t.belts
             /\ log' = t.log
    /\ prev' = belts
    /\ ret' = <<>>
    /\ op' = <<"tick">>
    /\ ticks' = ticks + 1
    /\ UNCHANGED accepts

NextHandoff == HandoffTick

SpecHandoff == InitHandoff /\ [][NextHandoff]_vars

\* ------------------------------------------------------------ observations

\* tests.rs:10: the number of occupied slots of a lane.
count_items(lane) == Cardinality({k \in 1..Capacity : lane.items[k] # None})

\* The occupied slots of a world, as <<coordinate, is_left, slot>>.
Slots(w) ==
    {x \in (DOMAIN w) \X BOOLEAN \X (1..Capacity) :
        get_lane(w, x[1], x[2]).items[x[3]] # None}

ItemAt(w, x) == get_lane(w, x[1], x[2]).items[x[3]][1]
PosAt(w, x) == get_lane(w, x[1], x[2]).items[x[3]][2]

Handles(w) == {ItemAt(w, x) : x \in Slots(w)}
HandleCount(w, h) == Cardinality({x \in Slots(w) : ItemAt(w, x) = h})
UniqueHandles(w) == \A h \in Handles(w) : HandleCount(w, h) = 1
TotalItems(w) == Cardinality(Slots(w))

InBand(w) == \A x \in Slots(w) : PosAt(w, x) \in 0..LastPosition

Dist(a, b) == IF a >= b THEN a - b ELSE b - a

GapsOk(w) ==
    \A x, y \in Slots(w) :
        (x # y /\ x[1] = y[1] /\ x[2] = y[2]) => Dist(PosAt(w, x), PosAt(w, y)) >= MinGap

OnLane(lane, item) ==
    \E k \in 1..Capacity : lane.items[k] # None /\ lane.items[k][1] = item

Ticked == op[1] = "tick"
Accepted == op[1] = "accept_item"
Advanced == op[1] = "tick_and_get_transfers"

LogEntries == {log[i] : i \in DOMAIN log}

\* A lane refuses (item, position): no slot is free, or the adjusted position
\* is beyond the lane.
Refuses(lane, position) ==
    \/ count_items(lane) = Capacity
    \/ adjusted_position(lane.items, position) > LastPosition

RefusedByBoth(e) ==
    /\ e.found
    /\ Refuses(e.before.left_lane, e.transfer[3])
    /\ Refuses(e.before.right_lane, e.transfer[3])

\* The entry's item was placed on a lane of the target belt.
Placed(e) == e.found /\ e.after # e.before

\* The coordinates the belt at c sends a transfer to in a tick of w.
EmitsTo(w, c) ==
    LET t == TickBelt(w[c]).transfers IN {t[i][1] : i \in DOMAIN t}

\* Two different belts emit a transfer to the same successor coordinate.
Contested(w) ==
    \E c1, c2 \in DOMAIN w : c1 # c2 /\ EmitsTo(w, c1) \cap EmitsTo(w, c2) # {}

\* ------------------------------------------------------------------ claims

\* C1: after a World::tick of a world whose lanes hold positions in [0,255]
\* pairwise at least 64 apart, any two items of one lane are at least 64 apart.
C1_GapAfterTick ==
    (Ticked /\ InBand(prev) /\ GapsOk(prev)) => GapsOk(belts)

\* C2: World::tick leaves the multiset of item handles of the world unchanged.
C2_HandlesPreserved ==
    Ticked => \A h \in Handles(prev) \cup Handles(belts) :
                  HandleCount(belts, h) = HandleCount(prev, h)

\* C3: a World::tick never increases the number of items, and keeps it when
\* no emitted item is refused by both lanes of its successor tile.
C3_CountPreserved ==
    Ticked =>
        /\ TotalItems(belts) <= TotalItems(prev)
        /\ (\A e \in LogEntries : ~RefusedByBoth(e)) => TotalItems(belts) = TotalItems(prev)

\* C4: after every World::tick and after every accept_item call, with any
\* target position, every occupied slot holds a position in [0,255].
C4_PositionsInBand ==
    (Ticked \/ Accepted) => InBand(belts)

\* C4 witness: after a tick, the producer's item aimed beyond the lane was
\* placed, at the last position.
C4_Witness ==
    /\ Accepted /\ ticks > 0
    /\ op[5] > LastPosition /\ ret = TRUE
    /\ \E x \in Slots(belts) : ItemAt(belts, x) = op[4] /\ PosAt(belts, x) = LastPosition

\* C5: if every handle is in at most one slot of the world before a
\* World::tick, every handle is in at most one slot after it.
C5_HandlesStayUnique ==
    (Ticked /\ UniqueHandles(prev)) => UniqueHandles(belts)

\* C5 witness: a tick moved an item from its lane onto a lane of the
\* successor belt.
C5_Witness ==
    /\ Ticked /\ UniqueHandles(prev)
    /\ \E e \in LogEntries : Placed(e) /\ e.transfer[2] \in Handles(belts)

\* C6: one advance of a lane with positions in [0,255] leaves no item that
\* stays on the lane at a smaller position than it had.
C6_NoBackward ==
    (Advanced /\ InBand(prev)) =>
        \A x \in Slots(prev) \cap Slots(belts) :
            ItemAt(belts, x) = ItemAt(prev, x) => PosAt(belts, x) >= PosAt(prev, x)

\* C6 witness: an item closer than 64 behind its leader's new position held
\* its position in the advance.
C6_Witness ==
    /\ Advanced /\ InBand(prev)
    /\ \E x, y \in Slots(prev) \cap Slots(belts) :
          /\ PosAt(belts, x) = PosAt(prev, x)
          /\ PosAt(belts, x) < LastPosition
          /\ PosAt(belts, y) > PosAt(belts, x)
          /\ PosAt(belts, y) - MinGap < PosAt(belts, x)

\* C7: in one World::tick an item stays on its tile or moves to the successor
\* tile of its lane, and an item delivered in the tick is not advanced on its
\* new lane in that tick.
C7_OneBoundaryPerTick ==
    (Ticked /\ UniqueHandles(prev)) =>
        /\ \A x \in Slots(prev), y \in Slots(belts) :
              ItemAt(belts, y) = ItemAt(prev, x) =>
                 y[1] \in {x[1], get_lane(prev, x[1], x[2]).next_lane_coord}
        /\ \A e \in LogEntries :
              Placed(e) =>
                 \E is_left \in BOOLEAN, k \in 1..Capacity :
                    LET slot == get_lane(belts, e.transfer[1], is_left).items[k]
                        placed == IF is_left THEN e.after.left_lane.items[k]
                                  ELSE e.after.right_lane.items[k]
                    IN placed # None /\ placed[1] = e.transfer[2] /\ slot = placed

\* C7 witness: a Turbo belt handed an item to an empty Turbo belt.
C7_Witness ==
    /\ Ticked /\ UniqueHandles(prev)
    /\ \E e \in LogEntries :
          /\ Placed(e)
          /\ e.before.left_lane.belt_type = "Turbo"
          /\ count_items(e.before.left_lane) = 0
          /\ count_items(e.before.right_lane) = 0
          /\ \E x \in Slots(prev) :
                /\ ItemAt(prev, x) = e.transfer[2]
                /\ get_lane(prev, x[1], x[2]).belt_type = "Turbo"

\* C8: when no two different tiles emit a transfer to the same successor tile
\* in the tick, every iteration order of the belts gives the same world.
C8_OrderInsensitive ==
    (Ticked /\ ~Contested(prev)) =>
        \A order \in Orders(prev) : tick(prev, order).belts = belts

\* C8 witness: two different belts handed items to two different successors
\* in one tick.
C8_Witness ==
    /\ Ticked /\ ~Contested(prev)
    /\ \E e1, e2 \in LogEntries :
          Placed(e1) /\ Placed(e2) /\ e1.transfer[1] # e2.transfer[1]

\* C9: a transfer is offered to the left lane of the successor tile first and
\* to the right lane only if the left lane refused it; it never ends on both.
C9_LeftLaneFirst ==
    Ticked =>
        \A e \in LogEntries :
            (e.found /\ UniqueHandles(prev)) =>
                LET item == e.transfer[2]
                    left == accept_item(e.before.left_lane, item, e.transfer[3])
                IN /\ OnLane(e.after.right_lane, item) => ~left.ok
                   /\ left.ok => OnLane(e.after.left_lane, item)
                   /\ ~(OnLane(e.after.left_lane, item) /\ OnLane(e.after.right_lane, item))

\* C9 witness: the left lane refused an item and the right lane took it.
C9_Witness ==
    /\ Ticked /\ UniqueHandles(prev)
    /\ \E e \in LogEntries :
          /\ e.found
          /\ OnLane(e.after.right_lane, e.transfer[2])
          /\ ~OnLane(e.after.left_lane, e.transfer[2])

\* C10: an item that both lanes of the successor tile refuse is dropped: after
\* the tick it is on no lane of the world, its source lane included.
C10_DroppedWhenBothRefuse ==
    (Ticked /\ UniqueHandles(prev)) =>
        \A e \in LogEntries :
            RefusedByBoth(e) =>
                /\ e.after = e.before
                /\ e.transfer[2] \in Handles(prev)
                /\ e.transfer[2] \notin Handles(belts)

\* C10 witness: a tick in which both lanes of the successor refused an item.
C10_Witness ==
    /\ Ticked /\ UniqueHandles(prev)
    /\ \E e \in LogEntries : RefusedByBoth(e)

\* ----------------------------------------------------- claims about one lane

\* The lane under study and its state before the last advance.
TheLane == belts[c00].left_lane
PrevLane == prev[c00].left_lane

\* The positions held by the occupied slots of a lane.
Positions(lane) == {lane.items[k][2] : k \in {j \in 1..Capacity : lane.items[j] # None}}

\* The number of slots of a lane holding the handle h.
OnLaneCount(lane, h) ==
    Cardinality({k \in 1..Capacity : lane.items[k] # None /\ lane.items[k][1] = h})

\* The number of returned transfer records carrying the handle h.
ReturnedCount(transfers, h) ==
    Cardinality({i \in DOMAIN transfers : transfers[i][1] = h})

\* C11: one advance of a lane whose items are in [0,255] and pairwise at least
\* 64 apart, at any speed and with or without a successor, leaves the items
\* that remain on the lane pairwise at least 64 apart.
C11_LaneGapPreserved ==
    (Advanced /\ InBand(prev) /\ GapsOk(prev)) => GapsOk(belts)

\* C11 witness: on a lane without successor the front item was clamped at 255
\* and an item behind it moved up to exactly 64 behind it.
C11_Witness ==
    /\ Advanced /\ InBand(prev) /\ GapsOk(prev)
    /\ TheLane.next_lane_coord = None
    /\ \E x, y \in Slots(prev) \cap Slots(belts) :
          /\ PosAt(prev, y) < LastPosition /\ PosAt(belts, y) = LastPosition
          /\ PosAt(prev, x) < PosAt(belts, x)
          /\ PosAt(belts, x) = LastPosition - MinGap

\* C12: after one advance every handle that was on the lane is in exactly one
\* slot of the lane or in exactly one returned transfer, not both and not
\* neither; without a successor nothing is returned and the count is unchanged.
C12_AdvancePartitions ==
    (Advanced /\ UniqueHandles(prev)) =>
        /\ \A h \in Handles(prev) :
              OnLaneCount(TheLane, h) + ReturnedCount(ret, h) = 1
        /\ PrevLane.next_lane_coord = None =>
              (ret = <<>> /\ count_items(TheLane) = count_items(PrevLane))

\* C12 witness: an advance returned one item and kept another on the lane.
C12_Witness ==
    /\ Advanced /\ UniqueHandles(prev)
    /\ Len(ret) = 1
    /\ count_items(TheLane) >= 1
    /\ count_items(PrevLane) = count_items(TheLane) + 1

\* The speeds as the belt classes are documented: positions per tick.
StatedSpeed(belt_type) ==
    CASE belt_type = "Regular" -> 8
      [] belt_type = "Fast" -> 16
      [] belt_type = "Express" -> 24
      [] belt_type = "Turbo" -> 32

\* Before the last advance the lane held exactly one item, in slot 1.
SingleBefore == count_items(PrevLane) = 1 /\ PrevLane.items[1] # None
PrevItem == PrevLane.items[1][1]
PrevPos == PrevLane.items[1][2]
PrevCandidate == PrevPos + StatedSpeed(PrevLane.belt_type)

\* C13: a single item on an otherwise empty lane, at any position in [0,255],
\* advances by exactly the belt speed (8, 16, 24, 32) in every advance in
\* which its position plus the speed is at most 255.
C13_SingleItemMovesBySpeed ==
    (Advanced /\ SingleBefore /\ PrevCandidate <= LastPosition) =>
        /\ TheLane.items = [PrevLane.items EXCEPT ![1] = <<PrevItem, PrevCandidate>>]
        /\ ret = <<>>

\* C13 witness: the Turbo item of the tests is at 74 after its second advance.
C13_Witness ==
    /\ Advanced /\ SingleBefore /\ ticks = 2
    /\ PrevLane.belt_type = "Turbo" /\ PrevPos = 42
    /\ TheLane.items[1] = <<PrevItem, 74>>

C15_CarryPosition ==
    (Advanced /\ SingleBefore /\ PrevLane.next_lane_coord # None
              /\ PrevCandidate > LastPosition) =>
        /\ count_items(TheLane) = 0
        /\ ret = << <<PrevItem, PrevCandidate - LaneLength>> >>
        /\ ret[1][2] \in 0..(StatedSpeed(PrevLane.belt_type) - 1)

\* C15 witness: the Regular item at 250 was returned with carry position 2.
C15_Witness ==
    /\ Advanced /\ SingleBefore
    /\ PrevLane.belt_type = "Regular" /\ PrevPos = 250
    /\ ret = << <<PrevItem, 2>> >> /\ count_items(TheLane) = 0

\* The lane held before the advance exactly the items 1 and 2 at 100 and 170
\* (tests.rs:173-174) on a Regular lane without successor.
Lane_100_170 ==
    /\ PrevLane.belt_type = "Regular" /\ PrevLane.next_lane_coord = None
    /\ PrevLane.items = [k \in 1..Capacity |->
            IF k = 1 THEN <<1, 100>> ELSE IF k = 2 THEN <<2, 170>> ELSE None]

\* C16: two items at 100 and 170 on a Regular lane without successor are at
\* positions {108, 172} after one advance.
C16_Spacing_100_170 ==
    (Advanced /\ Lane_100_170) => Positions(TheLane) = {108, 172}

\* C16 as the code has it: the items are 70 apart, the leader goes to 178 and
\* the follower, 108 + 64 <= 178, to 108; both move by the full speed.
C16_BothMoveBySpeed ==
    (Advanced /\ Lane_100_170) =>
        /\ TheLane.items = [PrevLane.items EXCEPT ![1] = <<1, 108>>, ![2] = <<2, 178>>]
        /\ ret = <<>>

\* C16 witness: the advance of the lane holding 100 and 170 has happened.
C16_Witness ==
    Advanced /\ Lane_100_170 /\ Positions(TheLane) = {108, 178}

\* The greatest position on a lane that holds an item.
FrontPos(lane) == CHOOSE p \in Positions(lane) : \A q \in Positions(lane) : q <= p

\* Every item of the lane is at 255.
AllAtEnd == \A p \in Positions(TheLane) : p = LastPosition

\* C17: under repeated advances every item of a lane without successor
\* eventually reaches 255 and stays there, from every start that respects
\* the gap and at every speed.
C17_EveryItemReachesEnd == <>[]AllAtEnd

\* The front item of the lane, if there is one, is at 255.
FrontAtEnd == count_items(TheLane) > 0 => FrontPos(TheLane) = LastPosition

\* C17 as the code has it: the front item of the lane eventually reaches 255
\* and stays there; an item behind it cannot, it is held 64 behind its leader.
C17_FrontItemReachesEnd == <>[]FrontAtEnd

\* C17 witness: an advance brought the front item of a lane of several items
\* to 255 while an item stayed behind it.
C17_Witness ==
    /\ Advanced /\ count_items(TheLane) >= 2
    /\ FrontPos(PrevLane) < LastPosition /\ FrontPos(TheLane) = LastPosition
    /\ ~AllAtEnd

\* The k items of the lane sit at 255, 191, 127, 63 (the first k of these).
Compacted ==
    /\ Cardinality(Positions(TheLane)) = count_items(TheLane)
    /\ Positions(TheLane) =
          {LastPosition - MinGap * (i - 1) : i \in 1..count_items(TheLane)}

\* C18: k <= 4 items on a lane without successor that start pairwise at least
\* 64 apart, and the four items started at 0, 40, 80, 120, eventually sit at
\* exactly 255, 191, 127, 63 (the first k of these), and every advance of a
\* lane in that state leaves the lane unchanged.
C18_CompactionFixedPoint ==
    /\ <>[]Compacted
    /\ [][Compacted => (belts' = belts /\ ret' = <<>>)]_vars

\* C18 witness: an advance completed the compaction of the four items started
\* at 0, 40, 80, 120 on a Regular lane.
C18_Witness ==
    /\ Advanced /\ Compacted /\ PrevLane # TheLane
    /\ TheLane.belt_type = "Regular"
    /\ \A k \in 1..4 : TheLane.items[k] # None
    /\ TheLane.items[1][2] = 63 /\ TheLane.items[4][2] = LastPosition

\* ------------------------------------------------- claims about worlds, continued

\* The chain is built of Regular belts and has been ticked ChainTicks times.
RegularChainDone ==
    ticks = ChainTicks /\ belts[c00].left_lane.belt_type = "Regular"

\* The belt at c holds no item.
BeltEmpty(w, c) == count_items(w[c].left_lane) = 0 /\ count_items(w[c].right_lane) = 0

\* C19: in the chain of three Regular belts with items at 100, 180, 250 on the
\* left lane of belt 1, after 90 world ticks the three items are on belt 3,
\* the front one at 255 and the others within 8 of 191 and of 127, pairwise at
\* least 64 apart, and belts 1 and 2 are empty.
C19_ChainAfter90Ticks ==
    RegularChainDone =>
        /\ Handles(belts) = Handles(prev) /\ TotalItems(belts) = 3
        /\ BeltEmpty(belts, c00) /\ BeltEmpty(belts, c10)
        /\ count_items(belts[c20].left_lane) = 3
        /\ \E p1, p2, p3 \in Positions(belts[c20].left_lane) :
              /\ p1 = LastPosition
              /\ Dist(p2, LastPosition - MinGap) <= 8
              /\ Dist(p3, LastPosition - 2 * MinGap) <= 8
        /\ GapsOk(belts)

\* C19 witness: after the 90th tick the left lane of belt 3 holds the three
\* items of belt 1 at 255, 191 and 127.
C19_Witness ==
    /\ RegularChainDone /\ Ticked
    /\ {belts[c20].left_lane.items[k] : k \in 1..Capacity}
           = {<<31, 255>>, <<32, 191>>, <<33, 127>>, None}

\* The slot of prev that held the item of log entry e.
SourceSlots(e) == {x \in Slots(prev) : ItemAt(prev, x) = e.transfer[2]}

\* The carry position of the item in slot x of prev: old position plus the
\* speed of its lane, less 256.
CarryOf(x) ==
    PosAt(prev, x) + StatedSpeed(get_lane(prev, x[1], x[2]).belt_type) - LaneLength

\* The item of log entry e arrived at a successor whose left lane was empty.
ArrivedAtEmptyLeft(e) == e.found /\ count_items(e.before.left_lane) = 0

\* After the tick the item of e is on the left lane of its successor tile at
\* its carry position.
LandedAtCarry(e) ==
    \A x \in SourceSlots(e) :
        \E k \in 1..Capacity :
            belts[e.transfer[1]].left_lane.items[k] = <<e.transfer[2], CarryOf(x)>>

AllOnLastTile ==
    \A x \in Slots(belts) : get_lane(belts, x[1], x[2]).next_lane_coord = None

\* C21: in the chain of three tiles whose last tile has no successor, holding
\* at most 5 items, repeated World::tick eventually brings every item onto
\* the last tile, and no tick loses an item.
C21_AllReachLastTile ==
    /\ <>[]AllOnLastTile
    /\ [][Handles(belts') = Handles(belts) /\ TotalItems(belts') = TotalItems(belts)]_vars

\* C21 witness: a tick brought the last of five items onto the last tile.
C21_Witness ==
    /\ Ticked /\ AllOnLastTile /\ TotalItems(belts) = 5
    /\ \E x \in Slots(prev) : get_lane(prev, x[1], x[2]).next_lane_coord # None

\* --------------------------------------------------- claims about accept_item

\* The item and the target position of the last accept_item call.
NewItem == op[4]
Target == op[5]

\* The slots of the lane that changed in the last call.
ChangedSlots == {k \in 1..Capacity : TheLane.items[k] # PrevLane.items[k]}

\* The position at which the new item sits after the call.
NewPos == CHOOSE p \in 0..MaxTargetPosition :
              \E k \in 1..Capacity : TheLane.items[k] = <<NewItem, p>>

\* C22: accept_item(item, p) on an empty lane returns true and leaves exactly
\* one item on the lane, at min(p, 255), for every p, also p above 255.
C22_AcceptOnEmptyLane ==
    (Accepted /\ count_items(PrevLane) = 0) =>
        /\ ret = TRUE
        /\ count_items(TheLane) = 1
        /\ \E k \in 1..Capacity :
              TheLane.items[k] = <<NewItem, IF Target <= 255 THEN Target ELSE 255>>

\* C22 witness: an empty lane took an item offered at 300, at position 255.
C22_Witness ==
    /\ Accepted /\ count_items(PrevLane) = 0 /\ Target = 300
    /\ ret = TRUE /\ Positions(TheLane) = {255}

\* C23: accept_item on a lane whose 5 slots are all occupied returns false,
\* for every target position and arrangement, and leaves the lane as it was.
C23_FullLaneRefuses ==
    (Accepted /\ count_items(PrevLane) = Capacity) =>
        (ret = FALSE /\ TheLane = PrevLane)

\* C23 witness: a full lane was offered an item at 240 and refused it.
C23_Witness ==
    /\ Accepted /\ count_items(PrevLane) = Capacity /\ Target = 240
    /\ ret = FALSE /\ TheLane = PrevLane

\* C24: after a successful accept_item the new item is at least 64 ahead of
\* every item that was on the lane at a position strictly smaller than the
\* new item's, for every lane state and arrangement of the slots.
C24_NewItemClearOfItemsBehind ==
    (Accepted /\ ret = TRUE) =>
        \A p \in Positions(PrevLane) : p < NewPos => NewPos - p >= MinGap

\* false is returned when no slot is free or the adjusted position is above 255.
MustRefuse ==
    \/ count_items(PrevLane) = Capacity
    \/ adjusted_position(PrevLane.items, Target) > LastPosition

\* C25: accept_item returns true exactly when it placed the item: on true one
\* slot that was empty holds the new item and every other slot is as before;
\* on false, returned when no slot is free or the adjusted position is above
\* 255, the lane is as before.
C25_AcceptFrame ==
    Accepted =>
        /\ ret = ~MustRefuse
        /\ ret = TRUE =>
              \E k \in 1..Capacity :
                 /\ PrevLane.items[k] = None
                 /\ TheLane.items[k] # None /\ TheLane.items[k][1] = NewItem
                 /\ ChangedSlots = {k}
        /\ ret = FALSE => TheLane = PrevLane
        /\ TheLane.belt_type = PrevLane.belt_type
        /\ TheLane.next_lane_coord = PrevLane.next_lane_coord

\* C25 witness: a lane with a free slot refused an item because its adjusted
\* position was above 255.
C25_Witness ==
    /\ Accepted /\ ret = FALSE /\ TheLane = PrevLane
    /\ count_items(PrevLane) < Capacity

\* The ways of arranging the records of a lane among its 5 slots.
SlotOrders ==
    {f \in [1..Capacity -> 1..Capacity] :
        \A i, j \in 1..Capacity : i # j => f[i] # f[j]}

\* The lane with slot k holding what slot f[k] held.
rearranged(lane, f) ==
    [lane EXCEPT !.items = [k \in 1..Capacity |-> lane.items[f[k]]]]

\* The (item, position) records of a lane, and the transfers of an advance.
Records(lane) == {lane.items[k] : k \in {j \in 1..Capacity : lane.items[j] # None}}
TransferSet(transfers) == {transfers[i] : i \in DOMAIN transfers}

\* C26: slot order is not significant: on a lane holding the same records
\* arranged differently among the 5 slots, accept_item with the same arguments
\* gives the same return value and the same set of records, and an advance
\* gives the same set of records and the same transfers.
C26_SlotOrderInsignificant ==
    /\ Accepted =>
          \A f \in SlotOrders :
             LET r == accept_item(rearranged(PrevLane, f), NewItem, Target)
             IN r.ok = ret /\ Records(r.lane) = Records(TheLane)
    /\ Advanced =>
          \A f \in SlotOrders :
             LET r == tick_and_get_transfers(rearranged(PrevLane, f))
             IN /\ Records(r.lane) = Records(TheLane)
                /\ TransferSet(r.transfers) = TransferSet(ret)

\* Slots whose item was on the lane before the advance and is still on it.
Remaining == {k \in 1..Capacity : PrevLane.items[k] # None /\ TheLane.items[k] # None}

\* The positions on the lane before the advance were pairwise distinct.
DistinctBefore ==
    \A j, k \in 1..Capacity :
        (j # k /\ PrevLane.items[j] # None /\ PrevLane.items[k] # None)
            => PrevLane.items[j][2] # PrevLane.items[k][2]

\* C27: an advance preserves rank order: on a lane with pairwise distinct
\* positions in [0,255], an item strictly behind another before the advance is
\* strictly behind it afterwards when both are still on the lane.
C27_RankOrderPreserved ==
    (Advanced /\ DistinctBefore) =>
        \A a, b \in Remaining :
            PrevLane.items[a][2] < PrevLane.items[b][2]
                => TheLane.items[a][2] < TheLane.items[b][2]

\* C28: two items that were closer than 64 apart before an advance, and are
\* both still on the lane, are not closer to each other after it.
C28_CloseItemsNotCloser ==
    Advanced =>
        \A a, b \in Remaining :
            (a # b /\ Dist(PrevLane.items[a][2], PrevLane.items[b][2]) < MinGap)
                => Dist(TheLane.items[a][2], TheLane.items[b][2])
                      >= Dist(PrevLane.items[a][2], PrevLane.items[b][2])

\* Pairs of deliveries of the tick that went to the same successor tile.
ConvergingPairs ==
    {ij \in (DOMAIN log) \X (DOMAIN log) :
        /\ ij[1] < ij[2]
        /\ log[ij[1]].found /\ log[ij[2]].found
        /\ log[ij[1]].transfer[1] = log[ij[2]].transfer[1]}

\* The items a and b are on one lane of the world, closer than 64 apart.
TooCloseOnOneLane(a, b) ==
    \E x, y \in Slots(belts) :
        /\ ItemAt(belts, x) = a /\ ItemAt(belts, y) = b
        /\ x[1] = y[1] /\ x[2] = y[2]
        /\ Dist(PosAt(belts, x), PosAt(belts, y)) < MinGap

\* C29: when two transfers of one tick go to the same successor tile, both
\* items are in the world after the tick, and they are not on the same lane at
\* the same position or closer than 64 apart.
C29_ConvergingArrivalsKeptApart ==
    Ticked =>
        \A ij \in ConvergingPairs :
            LET a == log[ij[1]].transfer[2]
                b == log[ij[2]].transfer[2]
            IN /\ a \in Handles(belts) /\ b \in Handles(belts)
               /\ ~TooCloseOnOneLane(a, b)

\* The advance panicked.
Panicked == op[1] = "panic"

\* The item of slot k is among the transfers returned.
HandedOver(k) == \E i \in DOMAIN ret : ret[i][1] = PrevLane.items[k][1]

\* C30: an item whose stored position is 256 or more is tolerated by an
\* advance: the advance does not panic, and the item is returned as a transfer
\* and removed when the lane has a successor, otherwise it is set to 255.
C30_OutOfBandTolerated ==
    /\ ~Panicked
    /\ Advanced =>
          \A k \in 1..Capacity :
             (PrevLane.items[k] # None /\ u32_ge(PrevLane.items[k][2], LaneLength)) =>
                IF PrevLane.next_lane_coord # None
                THEN TheLane.items[k] = None /\ HandedOver(k)
                ELSE TheLane.items[k] = <<PrevLane.items[k][1], LastPosition>>

\* C31: no operation panics on lanes with positions in [0,255]: in
\* World::tick, tick_and_get_transfers and accept_item, with every target
\* position, no u32 subtraction goes below zero and no addition passes
\* u32::MAX, so a build that checks its arithmetic never panics.
C31_NoPanic == ~Panicked

\* C31 witness: a follower at 0 was held at 0 behind a leader that moved from
\* 40 to 48 (ahead_pos is not above 64, so ahead_pos - 64 is not computed).
C31_Witness ==
    /\ Advanced /\ ~Panicked
    /\ Positions(PrevLane) = {0, 40}
    /\ Positions(TheLane) = {0, 48}

\* Slot b holds the leader of slot a: the nearest item ahead of it before the
\* advance.
LeaderOf(a, b) ==
    /\ PrevLane.items[a] # None /\ PrevLane.items[b] # None
    /\ PrevLane.items[a][2] < PrevLane.items[b][2]
    /\ \A c \in 1..Capacity :
          PrevLane.items[c] # None =>
             ~(PrevLane.items[a][2] < PrevLane.items[c][2]
                 /\ PrevLane.items[c][2] < PrevLane.items[b][2])

\* C32: the gap rule is "at least 64": a follower whose position plus the belt
\* speed is exactly 64 below the position its leader has after the advance
\* moves by the full belt speed and ends exactly 64 behind the leader.
C32_Exactly64IsLegal ==
    (Advanced /\ DistinctBefore) =>
        \A a, b \in Remaining :
            (/\ LeaderOf(a, b)
             /\ PrevLane.items[a][2] + positions_per_tick(PrevLane.belt_type) + MinGap
                   = TheLane.items[b][2])
            => /\ TheLane.items[a][2]
                    = PrevLane.items[a][2] + positions_per_tick(PrevLane.belt_type)
               /\ TheLane.items[b][2] - TheLane.items[a][2] = MinGap

\* C32 witness: items at 100 and 164 on a Regular lane both moved by 8, to
\* 108 and 172, 64 apart.
C32_Witness ==
    /\ Advanced /\ PrevLane.belt_type = "Regular"
    /\ PrevLane.items[1] = <<1, 100>> /\ PrevLane.items[2] = <<2, 164>>
    /\ count_items(PrevLane) = 2
    /\ TheLane.items[1] = <<1, 108>> /\ TheLane.items[2] = <<2, 172>>

\* An item that was on one lane of a tile is on the other lane of that tile.
CrossedLanes ==
    \E x \in Slots(prev), y \in Slots(belts) :
        /\ ItemAt(belts, y) = ItemAt(prev, x)
        /\ y[1] = x[1] /\ y[2] # x[2]

\* C33: the two lanes of a tile are independent: an advance or an accept on
\* one lane leaves the other lane of the tile as it was, and a World::tick
\* never moves an item from one lane of a tile to the other lane of that tile.
C33_LanesIndependent ==
    /\ (Advanced \/ Accepted) => belts[c00].right_lane = prev[c00].right_lane
    /\ (Ticked /\ UniqueHandles(prev)) => ~CrossedLanes

\* The coordinates, belt types and successor links of a world.
Skeleton(w) ==
    [c \in DOMAIN w |->
        <<w[c].coordinate,
          w[c].left_lane.belt_type, w[c].left_lane.next_lane_coord,
          w[c].right_lane.belt_type, w[c].right_lane.next_lane_coord>>]

\* C34: World::tick changes only item slots: the set of tile coordinates,
\* every lane's belt type and every lane's successor link are after the tick
\* what they were before it, and so after any number of ticks.
C34_TickKeepsSkeleton ==
    Ticked => Skeleton(belts) = Skeleton(prev)

\* C34 witness: a tick in which an item was sent to a coordinate that holds
\* no belt, and one in which an item was placed on another tile.
C34_Witness ==
    /\ Ticked /\ Skeleton(belts) = Skeleton(prev)
    /\ \E e \in LogEntries : ~e.found
    /\ \E e \in LogEntries : Placed(e)

\* ------------------------------------------- the reference advance algorithm

\* Steps 1 and 2: the occupied slots as <<slot_index, item, current_position>>,
\* by descending current_position.
RECURSIVE reference_sorted(_)
reference_sorted(entries) ==
    IF entries = {} THEN <<>>
    ELSE LET front == CHOOSE e \in entries : \A f \in entries : f[3] <= e[3]
         IN <<front>> \o reference_sorted(entries \ {front})

\* Step 3, second item: desired is reduced against every resolved entry ahead
\* of current_position that it would come closer to than 64.
RECURSIVE reference_reduce(_, _, _, _)
reference_reduce(resolved, k, current_position, desired) ==
    IF k > Len(resolved) THEN desired
    ELSE LET ahead == resolved[k][3]
         IN IF ahead > current_position /\ desired + 64 > ahead
            THEN reference_reduce(resolved, k + 1, current_position,
                                  IF ahead - 64 >= 0 THEN ahead - 64 ELSE 0)
            ELSE reference_reduce(resolved, k + 1, current_position, desired)

\* Steps 3 and 4: resolved as <<slot_index, candidate, recorded position>>.
RECURSIVE reference_resolve(_, _, _, _, _)
reference_resolve(sorted, i, belt_speed, has_successor, resolved) ==
    IF i > Len(sorted) THEN resolved
    ELSE LET current_position == sorted[i][3]
             desired == reference_reduce(resolved, 1, current_position,
                                         current_position + belt_speed)
             candidate == IF desired < current_position THEN current_position ELSE desired
             recorded == IF candidate > 255 /\ ~has_successor THEN 255 ELSE candidate
         IN reference_resolve(sorted, i + 1, belt_speed, has_successor,
                              Append(resolved, <<sorted[i][1], candidate, recorded>>))

\* Step 5 on st = [items, transfers].
RECURSIVE reference_apply(_, _, _, _)
reference_apply(st, resolved, k, has_successor) ==
    IF k > Len(resolved) THEN st
    ELSE LET slot_index == resolved[k][1]
             candidate == resolved[k][2]
             item == st.items[slot_index][1]
             next == IF candidate > 255 /\ has_successor
                     THEN [items |-> [st.items EXCEPT ![slot_index] = None],
                           transfers |-> Append(st.transfers, <<item, candidate - 256>>)]
                     ELSE IF candidate > 255
                     THEN [st EXCEPT !.items[slot_index] = <<item, 255>>]
                     ELSE [st EXCEPT !.items[slot_index] = <<item, candidate>>]
         IN reference_apply(next, resolved, k + 1, has_successor)

\* The advance of the reference algorithm: the slots afterwards and the
\* transfer records.
reference_advance(lane) ==
    LET has_successor == lane.next_lane_coord # None
        entries == {<<k, lane.items[k][1], lane.items[k][2]>> :
                       k \in {j \in 1..Capacity : lane.items[j] # None}}
        resolved == reference_resolve(reference_sorted(entries), 1,
                                      positions_per_tick(lane.belt_type), has_successor, <<>>)
    IN reference_apply([items |-> lane.items, transfers |-> <<>>], resolved, 1, has_successor)

\* C35: tick_and_get_transfers gives the positions and the transfer records
\* of the reference advance algorithm (sort by descending position, reduce the
\* desired position against every resolved leader ahead, floor at the current
\* position, record 255 when stuck without successor, then apply), on every
\* lane with pairwise distinct positions in [0,255].
C35_AdvanceMatchesReference ==
    (Advanced /\ DistinctBefore) =>
        LET r == reference_advance(PrevLane)
        IN r.items = TheLane.items /\ r.transfers = ret

\* The landing position accept_item starts from.
Landing == IF Target <= LastPosition THEN Target ELSE LastPosition

\* C36: accept_item adjusts only against items behind the landing position:
\* when every item on the lane is at min(p, 255) or ahead of it and a slot is
\* free, accept_item(item, p) returns true and places the item at exactly
\* min(p, 255), also when an item is less than 64 ahead of it or at it.
C36_NoAdjustmentAgainstItemsAhead ==
    (/\ Accepted
     /\ count_items(PrevLane) < Capacity
     /\ \A p \in Positions(PrevLane) : p >= Landing)
    => /\ ret = TRUE
       /\ \E k \in 1..Capacity :
             PrevLane.items[k] = None /\ TheLane.items[k] = <<NewItem, Landing>>

\* C36 witness: an item offered at 300 was placed at 255 on a lane that held
\* two items, both at 255.
C36_Witness ==
    /\ Accepted /\ Target = 300 /\ ret = TRUE
    /\ Positions(PrevLane) = {255}
    /\ count_items(PrevLane) = 2
    /\ \E k \in 1..Capacity : TheLane.items[k] = <<NewItem, 255>>

\* new_positions of the advance of a lane: <<idx, new_pos, spacing_pos>>.
NewPositions(lane) ==
    ResolveFrom(sort_by_reverse_pos(items_with_idx(lane.items)), 1,
                positions_per_tick(lane.belt_type), lane.next_lane_coord # None, <<>>)

\* The lanes of the world before the tick that have a successor.
LanesWithSuccessor ==
    {l \in (DOMAIN prev) \X BOOLEAN : get_lane(prev, l[1], l[2]).next_lane_coord # None}

\* C37: no backpressure crosses a tile boundary: in a World::tick the advance
\* of a lane that has a successor is decided by that lane alone. An item whose
\* candidate position exceeds 255 is sent to the successor coordinate and is
\* gone from its lane, whether or not the successor takes it; it is never kept
\* at 255. Every other item is at its candidate position.
C37_NoBackpressure ==
    (Ticked /\ UniqueHandles(prev)) =>
        \A l \in LanesWithSuccessor :
            LET before == get_lane(prev, l[1], l[2])
                after == get_lane(belts, l[1], l[2])
                new_positions == NewPositions(before)
            IN \A i \in DOMAIN new_positions :
                  LET idx == new_positions[i][1]
                      new_pos == new_positions[i][2]
                      item == before.items[idx][1]
                  IN IF new_pos > LastPosition
                     THEN /\ \E e \in LogEntries :
                                e.transfer = <<before.next_lane_coord, item, new_pos - LaneLength>>
                          /\ after.items[idx] # <<item, LastPosition>>
                          /\ before.next_lane_coord # l[1] => ~OnLane(after, item)
                     ELSE after.items[idx] = <<item, new_pos>>

\* C37 witness: an item ran off its lane and both lanes of the successor tile
\* refused it; it is on no lane of its tile afterwards.
C37_Witness ==
    /\ Ticked
    /\ \E e \in LogEntries :
          /\ RefusedByBoth(e)
          /\ e.transfer[2] \in Handles(prev)
          /\ e.transfer[2] \notin Handles(belts)

\* ceil(256 / belt speed): 32, 16, 11, 8.
DrainAdvances(belt_type) ==
    (LaneLength + positions_per_tick(belt_type) - 1) \div positions_per_tick(belt_type)

\* C38: on a lane that has a successor and whose items are pairwise at least
\* 64 apart every item advances by exactly the belt speed in every advance,
\* leaving with the carry position when it passes 255, so after
\* ceil(256 / belt speed) advances no item is left on the lane.
C38_FullSpeedWithSuccessor ==
    (Advanced /\ PrevLane.next_lane_coord # None /\ GapsOk(prev)) =>
        /\ \A k \in 1..Capacity :
              PrevLane.items[k] # None =>
                 LET item == PrevLane.items[k][1]
                     moved == PrevLane.items[k][2] + positions_per_tick(PrevLane.belt_type)
                 IN IF moved > LastPosition
                    THEN /\ TheLane.items[k] = None
                         /\ \E i \in DOMAIN ret : ret[i] = <<item, moved - LaneLength>>
                    ELSE TheLane.items[k] = <<item, moved>>
        /\ ticks >= DrainAdvances(TheLane.belt_type) => count_items(TheLane) = 0

\* C38 witness: on a Turbo lane the item at 250 left with carry 26 and the
\* item at 170 behind it moved the full 32 to 202 in the same advance.
C38_Witness ==
    /\ Advanced /\ PrevLane.next_lane_coord # None /\ PrevLane.belt_type = "Turbo"
    /\ Positions(PrevLane) = {170, 250}
    /\ Positions(TheLane) = {202}
    /\ Len(ret) = 1 /\ ret[1][2] = 26

\* The transfers of the tick sent to a coordinate that holds no belt.
Stranded == {e \in LogEntries : e.transfer[1] \notin DOMAIN prev}

\* C39: when the successor coordinate of a lane holds no tile, an item that
\* runs off the lane in a World::tick is removed from its lane and placed
\* nowhere: it is lost, and no lane was asked to take it.
C39_LostWithoutSuccessorTile ==
    (Ticked /\ UniqueHandles(prev)) =>
        \A e \in Stranded :
            /\ e.transfer[2] \in Handles(prev)
            /\ e.transfer[2] \notin Handles(belts)
            /\ ~e.found

\* C39 witness: a tick sent an item of the world to a coordinate without
\* belt, and the world holds one item less.
C39_Witness ==
    /\ Ticked /\ UniqueHandles(prev)
    /\ Cardinality(Stranded) = 1
    /\ \A e \in LogEntries \ Stranded : Placed(e)
    /\ TotalItems(belts) = TotalItems(prev) - 1

\* C40: items keep their order across a hand-off: the front item of the
\* feeding lane (item 1) and the item behind it (item 2) are handed to the same
\* successor lane in different ticks, and whenever both are on that lane the
\* front item is at the greater position, for every speed of the two belts.
C40_OrderKeptAcrossHandoff ==
    \A x, y \in Slots(belts) :
        (/\ x[1] = c10 /\ y[1] = c10 /\ x[2] = y[2]
         /\ ItemAt(belts, x) = 1 /\ ItemAt(belts, y) = 2)
        => PosAt(belts, x) > PosAt(belts, y)

====
